---- MODULE Spec2Model ----
(***************************************************************************)
(* High-knee repetition counter: custom_nodes/dabble/high_knee.py.         *)
(*                                                                         *)
(* Node.run is called once per video frame.  It reads the pose keypoints   *)
(* and their confidence scores, keeps the hips and knees whose score       *)
(* reaches THRESHOLD, and, when all four are present, updates the up/down  *)
(* position, the direction-change counter and the repetition counter of    *)
(* each leg.  It then draws "high knees = <left + right>" on the frame.    *)
(*                                                                         *)
(* Conventions of the model:                                               *)
(*  - a Python list is a TLA+ sequence; the Python index i is the TLA+     *)
(*    index i + 1 (operator At);                                           *)
(*  - a keypoint is the pair <<x, y>>, so Python's keypoint[1] is kp[2];   *)
(*  - an optional value (None or a value v) is <<>> or <<v>>;              *)
(*  - confidence scores are counted in tenths: 3 stands for 0.3;           *)
(*  - coordinates are counted in steps of 1 / GridScale of the frame, so   *)
(*    that the relative coordinate 1.0 is GridScale; img is img.shape,     *)
(*    <<height, width>>.                                                   *)
(***************************************************************************)
EXTENDS Integers, Sequences, FiniteSets, TLC

VARIABLES
    r_up,                       \* self.r_up
    l_up,                       \* self.l_up
    r_num_direction_changes,    \* self.r_num_direction_changes
    r_num_waves,                \* self.r_num_waves
    l_num_direction_changes,    \* self.l_num_direction_changes
    l_num_waves,                \* self.l_num_waves
    right_knee,                 \* self.right_knee (first knee data point)
    left_knee,                  \* self.left_knee
    wave_str,                   \* the total last drawn by run, <<>> before any
    pc,                         \* "ready", or "raised" once run has raised
    inputs,                     \* the inputs of the last call of run
    locals,                     \* the local variables of the last call of run
    hist                        \* log of the calls of run (scenario runs only)

vars == <<r_up, l_up, r_num_direction_changes, r_num_waves,
          l_num_direction_changes, l_num_waves, right_knee, left_knee,
          wave_str, pc, inputs, locals, hist>>

limbs == <<r_up, l_up, r_num_direction_changes, r_num_waves,
           l_num_direction_changes, l_num_waves>>

----------------------------------------------------------------------------
(* Program constants.                                                      *)

THRESHOLD == 3
KP_LEFT_HIP == 11
KP_RIGHT_HIP == 12
KP_LEFT_KNEE == 13
KP_RIGHT_KNEE == 14

TRACKED == {KP_LEFT_HIP, KP_RIGHT_HIP, KP_LEFT_KNEE, KP_RIGHT_KNEE}

(* Bounds of the model.                                                    *)

MaxReps == 2        \* run is not called once a side has counted MaxReps
MaxFrames == 5      \* length of the logged scenario runs
HipY == 1           \* the grid line of the hips in the generated frames

GridScale == HipY + 1       \* the hip line is the last grid line but one

None == <<>>
Some(v) == <<v>>
At(list, i) == list[i + 1]

----------------------------------------------------------------------------
(* The pure steps of run.                                                  *)

\* a variant that tests only the keypoints list
NoSubject_KeypointsOnly(keypoints, keypoint_scores) == Len(keypoints) = 0

\* lines 45-64: relative coordinates to pixels, int() truncates
map_keypoint_to_image_coords(keypoint, image_size) ==
    <<(keypoint[1] * image_size[1]) \div GridScale,
      (keypoint[2] * image_size[2]) \div GridScale>>

\* line 123: image width, height
ImgSize(img) == <<img[2], img[1]>>

\* line 129: no subject in the frame
NoSubject(keypoints, keypoint_scores) ==
    Len(keypoints) = 0 \/ Len(keypoint_scores) = 0

\* line 143: the_keypoint_scores[i] raises IndexError past the end
IndexError(list, i) == i >= Len(list)

\* a variant with > in place of >=
Present_Strict(keypoint_score) == keypoint_score > THRESHOLD

\* a variant with the threshold one step too low
Present_Lower(keypoint_score) == keypoint_score >= THRESHOLD - 1

\* line 145
Present(keypoint_score) == keypoint_score >= THRESHOLD

\* lines 149-162: yellow for the tracked keypoints, white for the others
ColorOf(i) == IF i \in TRACKED THEN "YELLOW" ELSE "WHITE"

\* lines 146-147 and 164: the label drawn at a present keypoint
Draw(found, i, keypoint, img_size) ==
    [found EXCEPT !.labels =
        Append(@, <<map_keypoint_to_image_coords(keypoint, img_size), ColorOf(i)>>)]

\* lines 149-160: the four tracked keypoints found so far
Assign(found, i, keypoint) ==
    IF i = KP_LEFT_HIP THEN [found EXCEPT !.left_hip = Some(keypoint)]
    ELSE IF i = KP_RIGHT_HIP THEN [found EXCEPT !.right_hip = Some(keypoint)]
    ELSE IF i = KP_RIGHT_KNEE THEN [found EXCEPT !.right_knee = Some(keypoint)]
    ELSE IF i = KP_LEFT_KNEE THEN [found EXCEPT !.left_knee = Some(keypoint)]
    ELSE found

NoneFound ==
    [left_hip |-> None, right_hip |-> None, right_knee |-> None,
     left_knee |-> None, labels |-> <<>>, raised |-> FALSE]

\* lines 146-164: the body of the loop for a present keypoint
Visit(found, i, keypoint, img_size) ==
    Draw(Assign(found, i, keypoint), i, keypoint, img_size)

\* a variant that stops at the shorter list, as zip() would
RECURSIVE Scan_Zip(_, _, _, _, _)
Scan_Zip(the_keypoints, the_keypoint_scores, img_size, i, found) ==
    IF i >= Len(the_keypoints) \/ i >= Len(the_keypoint_scores) THEN found
    ELSE Scan_Zip(the_keypoints, the_keypoint_scores, img_size, i + 1,
                  IF At(the_keypoint_scores, i) >= THRESHOLD
                  THEN Visit(found, i, At(the_keypoints, i), img_size)
                  ELSE found)

\* lines 142-164: the loop over the keypoints of subject 0, from index i on
RECURSIVE Scan(_, _, _, _, _)
Scan(the_keypoints, the_keypoint_scores, img_size, i, found) ==
    IF i >= Len(the_keypoints) THEN found
    ELSE IF IndexError(the_keypoint_scores, i)
         THEN [found EXCEPT !.raised = TRUE]
    ELSE Scan(the_keypoints, the_keypoint_scores, img_size, i + 1,
              IF Present(At(the_keypoint_scores, i))
              THEN Visit(found, i, At(the_keypoints, i), img_size)
              ELSE found)

\* lines 166-167: the update runs only with all four keypoints
AllFound(found) ==
    /\ found.left_hip # None
    /\ found.right_hip # None
    /\ found.left_knee # None
    /\ found.right_knee # None

\* a variant that reads x, index 0, in place of y
Position_X(knee, hip) == IF knee[1] < hip[1] THEN "up" ELSE "down"

\* a variant with <= in place of <
Position_LessEq(knee, hip) == IF knee[2] <= hip[2] THEN "up" ELSE "down"

\* a variant with the comparison turned round
Position_Greater(knee, hip) == IF knee[2] > hip[2] THEN "up" ELSE "down"

\* lines 176-179 and 189-192: lower number, higher position
Position(knee, hip) == IF knee[2] < hip[2] THEN "up" ELSE "down"

\* a variant that counts every frame in the up position
CountChange_Up(num_direction_changes, up, last_up) ==
    IF up = "up" THEN num_direction_changes + 1 ELSE num_direction_changes

\* lines 181-182 and 194-195
CountChange(num_direction_changes, up, last_up) ==
    IF up # last_up THEN num_direction_changes + 1 ELSE num_direction_changes

\* a variant that asks for a third change
RepReached_Three(num_direction_changes) == num_direction_changes >= 3

\* a variant that counts a repetition at the first change
RepReached_One(num_direction_changes) == num_direction_changes >= 1

\* lines 183 and 196
RepReached(num_direction_changes) == num_direction_changes >= 2

\* a variant with -= in place of +=
WavesAfter_Minus(num_waves, num_direction_changes) ==
    IF num_direction_changes >= 2 THEN num_waves - 1 ELSE num_waves

\* lines 184 and 197
WavesAfter(num_waves, num_direction_changes) ==
    IF RepReached(num_direction_changes) THEN num_waves + 1 ELSE num_waves

\* a variant that forgets to reset the counter
ChangesAfter_Keep(num_direction_changes) == num_direction_changes

\* lines 185 and 198
ChangesAfter(num_direction_changes) ==
    IF RepReached(num_direction_changes) THEN 0 ELSE num_direction_changes

\* a variant that forgets the right leg
Total_LeftOnly(l_waves, r_waves) == l_waves

\* lines 130 and 201
Total(l_waves, r_waves) == l_waves + r_waves

----------------------------------------------------------------------------
(* Node.__init__, lines 92-103.                                            *)

NoLocals ==
    [found |-> NoneFound, updated |-> FALSE, r_up |-> None, l_up |-> None,
     r_changes |-> None, l_changes |-> None]

DefaultImg == <<GridScale, GridScale>>

NoInputs == [img |-> DefaultImg, keypoints |-> <<>>, keypoint_scores |-> <<>>]

\* a variant that starts the right leg in the up position
Init_RightUp ==
    /\ r_up = "up"
    /\ l_up = "down"
    /\ r_num_direction_changes = 0
    /\ r_num_waves = 0
    /\ l_num_direction_changes = 0
    /\ l_num_waves = 0
    /\ right_knee = None
    /\ left_knee = None
    /\ wave_str = None
    /\ pc = "ready"
    /\ inputs = NoInputs
    /\ locals = NoLocals
    /\ hist = <<>>

Init ==
    /\ r_up = "down"
    /\ l_up = "down"
    /\ r_num_direction_changes = 0
    /\ r_num_waves = 0
    /\ l_num_direction_changes = 0
    /\ l_num_waves = 0
    /\ right_knee = None
    /\ left_knee = None
    /\ wave_str = None
    /\ pc = "ready"
    /\ inputs = NoInputs
    /\ locals = NoLocals
    /\ hist = <<>>

----------------------------------------------------------------------------
(* Node.run, lines 107-204, on the inputs f.                               *)

\* lines 129-132: no subject, the last total is drawn and run returns
RunNoSubject ==
    /\ wave_str' = Some(Total(l_num_waves, r_num_waves))
    /\ locals' = NoLocals
    /\ UNCHANGED <<limbs, right_knee, left_knee, pc>>

\* an exception leaves run before anything is assigned or the total is drawn
RunRaises(found) ==
    /\ pc' = "raised"
    /\ locals' = [NoLocals EXCEPT !.found = found]
    /\ UNCHANGED <<limbs, right_knee, left_knee, wave_str>>

\* lines 166-167 false: only the total is drawn
RunSkipsUpdate(found) ==
    /\ wave_str' = Some(Total(l_num_waves, r_num_waves))
    /\ locals' = [NoLocals EXCEPT !.found = found]
    /\ UNCHANGED <<limbs, right_knee, left_knee, pc>>

\* lines 169-202: both legs are updated, then the total is drawn
RunUpdates(found) ==
    LET rk == found.right_knee[1]
        rh == found.right_hip[1]
        lk == found.left_knee[1]
        lh == found.left_hip[1]
        r_pos == Position(rk, rh)
        r_changes == CountChange(r_num_direction_changes, r_pos, r_up)
        l_pos == Position(lk, lh)
        l_changes == CountChange(l_num_direction_changes, l_pos, l_up)
    IN  /\ right_knee' = IF right_knee = None THEN Some(rk) ELSE right_knee
        /\ left_knee' = IF left_knee = None THEN Some(lk) ELSE left_knee
        /\ r_num_waves' = WavesAfter(r_num_waves, r_changes)
        /\ r_num_direction_changes' = ChangesAfter(r_changes)
        /\ r_up' = r_pos
        /\ l_num_waves' = WavesAfter(l_num_waves, l_changes)
        /\ l_num_direction_changes' = ChangesAfter(l_changes)
        /\ l_up' = l_pos
        /\ wave_str' = Some(Total(l_num_waves', r_num_waves'))
        /\ locals' = [found |-> found, updated |-> TRUE,
                      r_up |-> Some(r_pos), l_up |-> Some(l_pos),
                      r_changes |-> Some(r_changes),
                      l_changes |-> Some(l_changes)]
        /\ UNCHANGED pc

\* lines 166-202, after the loop has left found
RunFound(found) ==
    IF found.raised THEN RunRaises(found)
    ELSE IF AllFound(found) THEN RunUpdates(found)
    ELSE RunSkipsUpdate(found)

run(f) ==
    /\ inputs' = f
    /\ IF NoSubject(f.keypoints, f.keypoint_scores) THEN RunNoSubject
       ELSE IF IndexError(f.keypoints, 0) \/ IndexError(f.keypoint_scores, 0)
            THEN RunRaises(NoneFound)                       \* lines 135-136
       ELSE RunFound(Scan(At(f.keypoints, 0), At(f.keypoint_scores, 0),
                          ImgSize(f.img), 0, NoneFound))

----------------------------------------------------------------------------
(* The frames the host pipeline delivers.                                  *)

NumKeypoints == KP_RIGHT_KNEE + 3      \* the pose schema ends with the ankles
KneeYs == {HipY - 1, HipY, HipY + 1}   \* above, on and below the hip line
Low == THRESHOLD - 1
High == THRESHOLD + 1

\* n keypoints of one subject: hips on the hip line, knees at rk and lk
KeypointsOf(n, rk, lk) ==
    [j \in 1..n |->
        IF j - 1 = KP_RIGHT_KNEE THEN <<0, rk>>
        ELSE IF j - 1 = KP_LEFT_KNEE THEN <<0, lk>>
        ELSE IF j - 1 \in {KP_LEFT_HIP, KP_RIGHT_HIP} THEN <<0, HipY>>
        ELSE <<0, 0>>]

\* m scores of one subject: sv gives the scores of the tracked keypoints
ScoresOf(m, sv) ==
    [j \in 1..m |-> IF j - 1 \in TRACKED THEN sv[j - 1] ELSE High]

AllAt(s) == [k \in TRACKED |-> s]
OneAt(k0, s) == [k \in TRACKED |-> IF k = k0 THEN s ELSE THRESHOLD]
LeftAt(s) ==
    [k \in TRACKED |-> IF k \in {KP_LEFT_HIP, KP_LEFT_KNEE} THEN s ELSE THRESHOLD]
ScoreVectors ==
    {AllAt(THRESHOLD), AllAt(High), AllAt(Low)} \cup {OneAt(k, Low) : k \in TRACKED}

FrameOf(n, m, sv, rk, lk) ==
    [img |-> DefaultImg,
     keypoints |-> <<KeypointsOf(n, rk, lk)>>,
     keypoint_scores |-> <<ScoresOf(m, sv)>>]

\* one subject, as many scores as keypoints
WellFormedFrames ==
    {FrameOf(NumKeypoints, NumKeypoints, sv, rk, lk) :
        sv \in ScoreVectors, rk \in KneeYs, lk \in KneeYs}

\* no subject: one of the two lists, or both, is empty
AbsentFrames ==
    {NoInputs,
     [img |-> DefaultImg, keypoints |-> <<>>,
      keypoint_scores |-> <<ScoresOf(NumKeypoints, AllAt(High))>>],
     [img |-> DefaultImg,
      keypoints |-> <<KeypointsOf(NumKeypoints, HipY - 1, HipY - 1)>>,
      keypoint_scores |-> <<>>]}

\* <<number of keypoints, number of scores>> of the malformed frames
MalformedShapes ==
    {<<NumKeypoints, NumKeypoints - 1>>, <<NumKeypoints, KP_RIGHT_HIP>>,
     <<NumKeypoints, NumKeypoints + 1>>, <<KP_RIGHT_KNEE + 1, NumKeypoints>>,
     <<KP_LEFT_KNEE, NumKeypoints>>, <<KP_RIGHT_HIP, KP_RIGHT_HIP>>,
     <<KP_LEFT_HIP, KP_LEFT_HIP>>}

\* every score at the threshold and both knees above the hip line
MalformedFrames ==
    {FrameOf(s[1], s[2], AllAt(THRESHOLD), HipY - 1, HipY - 1) : s \in MalformedShapes}

Frames == WellFormedFrames \cup AbsentFrames \cup MalformedFrames

\* the frames of the logged scenario runs: every tracked keypoint at the
\* threshold, the left leg below it, or no subject
SeqFrames ==
    {FrameOf(NumKeypoints, NumKeypoints, AllAt(THRESHOLD), rk, lk) :
        rk \in {HipY - 1, HipY}, lk \in {HipY - 1, HipY}}
      \cup {FrameOf(NumKeypoints, NumKeypoints, LeftAt(Low), rk, HipY - 1) :
                rk \in {HipY - 1, HipY}}
      \cup {NoInputs}

\* the same frame with something changed that the detection does not read:
\* the image size, the x coordinates of the knees or of the hips, the other
\* keypoints and their scores, or a second subject
Variants == {"same", "img", "x_knee", "x_hip", "others", "subject"}

VariantKeypoints(v, rk, lk) ==
    [j \in 1..NumKeypoints |->
        IF j - 1 = KP_RIGHT_KNEE THEN <<IF v = "x_knee" THEN GridScale ELSE 0, rk>>
        ELSE IF j - 1 = KP_LEFT_KNEE THEN <<IF v = "x_knee" THEN GridScale ELSE 0, lk>>
        ELSE IF j - 1 \in {KP_LEFT_HIP, KP_RIGHT_HIP}
             THEN <<IF v = "x_hip" THEN GridScale ELSE 0, HipY>>
        ELSE IF v = "others" THEN <<GridScale, GridScale>>
        ELSE <<0, 0>>]

VariantScores(v, sv) ==
    [j \in 1..NumKeypoints |->
        IF j - 1 \in TRACKED THEN sv[j - 1]
        ELSE IF v = "others" THEN Low
        ELSE High]

VariantOf(v, sv, rk, lk) ==
    [img |-> IF v = "img" THEN <<2 * GridScale, 3 * GridScale>> ELSE DefaultImg,
     keypoints |->
        IF v = "subject"
        THEN <<VariantKeypoints(v, rk, lk), KeypointsOf(NumKeypoints, HipY - rk, HipY - lk)>>
        ELSE <<VariantKeypoints(v, rk, lk)>>,
     keypoint_scores |->
        IF v = "subject"
        THEN <<VariantScores(v, sv), ScoresOf(NumKeypoints, AllAt(High))>>
        ELSE <<VariantScores(v, sv)>>]

VarFrames ==
    {VariantOf(v, AllAt(THRESHOLD), rk, lk) :
        v \in Variants, rk \in {HipY - 1, HipY}, lk \in {HipY - 1, HipY}}
      \cup {VariantOf(v, OneAt(KP_LEFT_HIP, Low), HipY - 1, HipY - 1) : v \in Variants}
      \cup {NoInputs, [NoInputs EXCEPT !.img = <<2 * GridScale, 3 * GridScale>>]}

----------------------------------------------------------------------------
(* The calls of run.                                                       *)

\* one frame of the pipeline; the host stops at the first exception
Frame(f) ==
    /\ pc = "ready"
    /\ r_num_waves < MaxReps
    /\ l_num_waves < MaxReps
    /\ run(f)
    /\ UNCHANGED hist

\* what the log keeps of the call run(f): its inputs and the state it leaves
Logged(f) ==
    [inputs |-> f, updated |-> locals'.updated, raised |-> pc' = "raised",
     r_up |-> r_up', r_changes |-> r_num_direction_changes', r_waves |-> r_num_waves',
     l_up |-> l_up', l_changes |-> l_num_direction_changes', l_waves |-> l_num_waves',
     total |-> wave_str']

\* one frame of a scenario run of at most MaxFrames frames, logged
LoggedFrame(f) ==
    /\ pc = "ready"
    /\ Len(hist) < MaxFrames
    /\ run(f)
    /\ hist' = Append(hist, Logged(f))

Next == \E f \in Frames : Frame(f)

Spec == Init /\ [][Next]_vars

NextVar == \E f \in VarFrames : Frame(f)

VarSpec == Init /\ [][NextVar]_vars

NextSeq == \E f \in SeqFrames : LoggedFrame(f)

SeqSpec == Init /\ [][NextSeq]_vars

----------------------------------------------------------------------------
(* What a frame says, read off the raw inputs.                             *)

HasSubject(f) == Len(f.keypoints) > 0 /\ Len(f.keypoint_scores) > 0
NumPoints(f) == Len(f.keypoints[1])
NumScores(f) == Len(f.keypoint_scores[1])
InRange(f, k) == HasSubject(f) /\ k < NumPoints(f) /\ k < NumScores(f)
ScoreIn(f, k) == f.keypoint_scores[1][k + 1]
YIn(f, k) == f.keypoints[1][k + 1][2]

ConfBelow(f, k) == InRange(f, k) /\ ScoreIn(f, k) < THRESHOLD
ConfReached(f, k) == InRange(f, k) /\ ScoreIn(f, k) >= THRESHOLD
SameLengths(f) == HasSubject(f) /\ NumPoints(f) = NumScores(f)

RightSeen(f) == ConfReached(f, KP_RIGHT_HIP) /\ ConfReached(f, KP_RIGHT_KNEE)
LeftSeen(f) == ConfReached(f, KP_LEFT_HIP) /\ ConfReached(f, KP_LEFT_KNEE)
RightLow(f) == ConfBelow(f, KP_RIGHT_HIP) \/ ConfBelow(f, KP_RIGHT_KNEE)
LeftLow(f) == ConfBelow(f, KP_LEFT_HIP) \/ ConfBelow(f, KP_LEFT_KNEE)
RightPos(f) == IF YIn(f, KP_RIGHT_KNEE) < YIn(f, KP_RIGHT_HIP) THEN "up" ELSE "down"
LeftPos(f) == IF YIn(f, KP_LEFT_KNEE) < YIn(f, KP_LEFT_HIP) THEN "up" ELSE "down"

\* a qualifying frame: one subject, every tracked keypoint at or above the threshold
Qualifying(f) == SameLengths(f) /\ RightSeen(f) /\ LeftSeen(f)

right_limb == <<r_up, r_num_direction_changes, r_num_waves>>
left_limb == <<l_up, l_num_direction_changes, l_num_waves>>

----------------------------------------------------------------------------
(* C1: from one frame to the next, whatever the frame, the left count, the *)
(* right count and the total drawn never decrease.                         *)
C1_Monotonic ==
    [][/\ r_num_waves' >= r_num_waves
       /\ l_num_waves' >= l_num_waves
       /\ (wave_str # None /\ wave_str' # None) => wave_str'[1] >= wave_str[1]]_vars

\* a frame without update follows counted repetitions on both sides
C1_Witness ==
    /\ r_num_waves >= 1
    /\ l_num_waves >= 1
    /\ wave_str = Some(2)
    /\ ~locals.updated
    /\ pc = "ready"

(* C2: a frame in which one side's hip and knee reach the threshold        *)
(* updates that side (its position becomes the one of the frame), whatever *)
(* the confidence of the other side.  The code contradicts it.             *)
C2_SideIndependence ==
    [][/\ (SameLengths(inputs') /\ RightSeen(inputs')) => r_up' = RightPos(inputs')
       /\ (SameLengths(inputs') /\ LeftSeen(inputs')) => l_up' = LeftPos(inputs')]_vars

(* C3: in a frame a side's count grows by 1 exactly when its change        *)
(* counter reaches 2 at line 183/196 of that frame, the counter is then 0  *)
(* after the frame, and otherwise the count is unchanged.                  *)
C3_RepIffSecondChange ==
    [][LET r_reached == locals'.updated /\ locals'.r_changes = Some(2)
           l_reached == locals'.updated /\ locals'.l_changes = Some(2)
       IN  /\ r_reached <=> r_num_waves' = r_num_waves + 1
           /\ r_reached => r_num_direction_changes' = 0
           /\ ~r_reached => r_num_waves' = r_num_waves
           /\ l_reached <=> l_num_waves' = l_num_waves + 1
           /\ l_reached => l_num_direction_changes' = 0
           /\ ~l_reached => l_num_waves' = l_num_waves]_vars

\* the frame of the second change of the right leg, already counted once
C3_Witness ==
    /\ locals.updated
    /\ locals.r_changes = Some(2)
    /\ r_num_waves = 2
    /\ r_num_direction_changes = 0
    /\ locals.l_changes = Some(1)

(* C4: a frame in which a side's hip or knee is below the threshold leaves *)
(* that side's position, change counter and count as they were.            *)
C4_MissingDataFreeze ==
    [][/\ RightLow(inputs') => UNCHANGED right_limb
       /\ LeftLow(inputs') => UNCHANGED left_limb]_vars

\* the right knee is below the threshold in a frame whose coordinates put it
\* above the hip while the recorded position is down; the left leg is seen
C4_Witness ==
    /\ pc = "ready"
    /\ ConfBelow(inputs, KP_RIGHT_KNEE)
    /\ ConfReached(inputs, KP_RIGHT_HIP)
    /\ LeftSeen(inputs)
    /\ RightPos(inputs) = "up"
    /\ r_up = "down"
    /\ r_num_direction_changes = 0
    /\ r_num_waves = 1

(* C5: a frame whose keypoints list or scores list is empty returns        *)
(* normally, leaves both sides unchanged and draws a total, the same as    *)
(* the one drawn for the frame before.                                     *)
C5_AbsentSubjectFreeze ==
    [][(Len(inputs'.keypoints) = 0 \/ Len(inputs'.keypoint_scores) = 0) =>
          /\ UNCHANGED <<right_limb, left_limb>>
          /\ pc' = "ready"
          /\ wave_str' # None
          /\ wave_str # None => wave_str' = wave_str]_vars

\* a frame with scores but no keypoints, after repetitions were counted
C5_Witness ==
    /\ Len(inputs.keypoints) = 0
    /\ Len(inputs.keypoint_scores) > 0
    /\ pc = "ready"
    /\ r_num_waves = 1
    /\ r_up = "up"
    /\ wave_str = Some(l_num_waves + 1)

----------------------------------------------------------------------------
(* The scenario runs: hist[k] is the k-th call of run since construction.  *)

\* the limb states before the k-th call
Before(k) ==
    IF k = 1
    THEN [r_up |-> "down", r_changes |-> 0, r_waves |-> 0,
          l_up |-> "down", l_changes |-> 0, l_waves |-> 0]
    ELSE [r_up |-> hist[k - 1].r_up, r_changes |-> hist[k - 1].r_changes,
          r_waves |-> hist[k - 1].r_waves,
          l_up |-> hist[k - 1].l_up, l_changes |-> hist[k - 1].l_changes,
          l_waves |-> hist[k - 1].l_waves]

\* calls k .. k + n - 1 are qualifying frames
QualifyingFrom(k, n) ==
    /\ k + n - 1 <= Len(hist)
    /\ \A j \in k..(k + n - 1) : Qualifying(hist[j].inputs)

RightDownUpDown(k) ==
    /\ QualifyingFrom(k, 3)
    /\ Before(k).r_up = "down"
    /\ Before(k).r_changes = 0
    /\ RightPos(hist[k].inputs) = "down"
    /\ RightPos(hist[k + 1].inputs) = "up"
    /\ RightPos(hist[k + 2].inputs) = "down"

LeftDownUpDown(k) ==
    /\ QualifyingFrom(k, 3)
    /\ Before(k).l_up = "down"
    /\ Before(k).l_changes = 0
    /\ LeftPos(hist[k].inputs) = "down"
    /\ LeftPos(hist[k + 1].inputs) = "up"
    /\ LeftPos(hist[k + 2].inputs) = "down"

(* C6: from a side that is down with change counter 0, three consecutive   *)
(* qualifying frames with positions down, up, down raise that side's count *)
(* by exactly 1 and leave its change counter at 0.                         *)
C6_TwoFlipRule ==
    \A k \in 1..Len(hist) :
        /\ RightDownUpDown(k) =>
              /\ hist[k + 2].r_waves = Before(k).r_waves + 1
              /\ hist[k + 2].r_changes = 0
        /\ LeftDownUpDown(k) =>
              /\ hist[k + 2].l_waves = Before(k).l_waves + 1
              /\ hist[k + 2].l_changes = 0

\* down, up, down on the right after one counted repetition, left leg still
C6_Witness ==
    /\ Len(hist) = 5
    /\ RightDownUpDown(3)
    /\ Before(3).r_waves = 1
    /\ r_num_waves = 2
    /\ l_num_waves = 0

(* C7: from the initial state, two qualifying frames with positions down,  *)
(* up leave that side's count at 0 and its change counter at 1.            *)
C7_SingleFlipNoRep ==
    /\ (/\ QualifyingFrom(1, 2)
        /\ RightPos(hist[1].inputs) = "down"
        /\ RightPos(hist[2].inputs) = "up") =>
           hist[2].r_waves = 0 /\ hist[2].r_changes = 1
    /\ (/\ QualifyingFrom(1, 2)
        /\ LeftPos(hist[1].inputs) = "down"
        /\ LeftPos(hist[2].inputs) = "up") =>
           hist[2].l_waves = 0 /\ hist[2].l_changes = 1

\* exactly the two frames down, up on the right leg
C7_Witness ==
    /\ Len(hist) = 2
    /\ QualifyingFrom(1, 2)
    /\ RightPos(hist[1].inputs) = "down"
    /\ RightPos(hist[2].inputs) = "up"
    /\ r_num_direction_changes = 1
    /\ r_up = "up"

(* C8: from the initial state, four frames that feed the right side only   *)
(* (right hip and knee at or above the threshold, the left side not), with *)
(* right positions up, down, up, down, end with right count 2, right       *)
(* change counter 0 and total 2.  The code contradicts it.                 *)
C8_RightOnlyScenario ==
    (/\ Len(hist) >= 4
     /\ \A k \in 1..4 :
            /\ SameLengths(hist[k].inputs)
            /\ RightSeen(hist[k].inputs)
            /\ ~LeftSeen(hist[k].inputs)
     /\ RightPos(hist[1].inputs) = "up"
     /\ RightPos(hist[2].inputs) = "down"
     /\ RightPos(hist[3].inputs) = "up"
     /\ RightPos(hist[4].inputs) = "down") =>
        /\ hist[4].r_waves = 2
        /\ hist[4].r_changes = 0
        /\ hist[4].total = Some(2)

(* C9: every frame that returns draws the sum of the left and right counts *)
(* as they stand after the frame.                                          *)
C9_TotalIsSum ==
    [][pc' = "ready" => wave_str' = Some(l_num_waves' + r_num_waves')]_vars

\* both sides have counted and the frame updated them
C9_Witness ==
    /\ locals.updated
    /\ l_num_waves = 1
    /\ r_num_waves = 2
    /\ wave_str = Some(3)

(* C10, as claimed: a frame whose keypoints and scores differ in length,   *)
(* or whose keypoints do not reach index 14, ends in an exception.         *)
C10_MalformedRaises ==
    [][(/\ HasSubject(inputs')
        /\ \/ NumPoints(inputs') # NumScores(inputs')
           \/ NumPoints(inputs') <= KP_RIGHT_KNEE) => pc' = "raised"]_vars

(* C10, amended: a frame with a subject ends in an exception exactly when  *)
(* it has fewer scores than keypoints, and then no limb state is changed   *)
(* and no total drawn; with at least as many scores as keypoints and       *)
(* keypoints that do not reach index 14 the frame returns, the limb states *)
(* unchanged and the total drawn.                                          *)
C10_ShortScoresRaise ==
    [][HasSubject(inputs') =>
          /\ pc' = "raised" <=> NumScores(inputs') < NumPoints(inputs')
          /\ pc' = "raised" => UNCHANGED <<limbs, wave_str>>
          /\ (/\ NumScores(inputs') >= NumPoints(inputs')
              /\ NumPoints(inputs') <= KP_RIGHT_KNEE) =>
                 /\ UNCHANGED limbs
                 /\ wave_str' = Some(l_num_waves + r_num_waves)]_vars

\* the exception of a frame with fewer scores than keypoints, after a count
C10_Witness ==
    /\ pc = "raised"
    /\ HasSubject(inputs)
    /\ NumScores(inputs) < NumPoints(inputs)
    /\ NumPoints(inputs) > KP_RIGHT_KNEE
    /\ r_num_waves = 1
    /\ wave_str = Some(r_num_waves + l_num_waves)

----------------------------------------------------------------------------
(* C11: in every qualifying frame each side's position is up exactly when  *)
(* its knee's y is smaller than its hip's y, down otherwise (also when     *)
(* they are equal), and the recorded position after the frame is that      *)
(* position, with or without a change or a repetition counted.             *)
C11_PositionRecorded ==
    [][Qualifying(inputs') =>
          /\ locals'.r_up = Some(RightPos(inputs'))
          /\ locals'.l_up = Some(LeftPos(inputs'))
          /\ r_up' = RightPos(inputs')
          /\ l_up' = LeftPos(inputs')]_vars

\* the right knee on the hip line counts as down and completes a repetition,
\* the left knee stays up and nothing is counted for it
C11_Witness ==
    /\ Qualifying(inputs)
    /\ YIn(inputs, KP_RIGHT_KNEE) = YIn(inputs, KP_RIGHT_HIP)
    /\ r_up = "down"
    /\ locals.r_changes = Some(2)
    /\ r_num_waves = 1
    /\ YIn(inputs, KP_LEFT_KNEE) < YIn(inputs, KP_LEFT_HIP)
    /\ l_up = "up"
    /\ locals.l_changes = Some(1)

\* the tracked keypoint of index k among those the loop has kept
FoundAt(found, k) ==
    IF k = KP_LEFT_HIP THEN found.left_hip
    ELSE IF k = KP_RIGHT_HIP THEN found.right_hip
    ELSE IF k = KP_LEFT_KNEE THEN found.left_knee
    ELSE found.right_knee

AllScoresAre(f, s) ==
    /\ SameLengths(f)
    /\ \A k \in TRACKED : InRange(f, k) /\ ScoreIn(f, k) = s

(* C12: a tracked keypoint is kept exactly when its score is at least the  *)
(* threshold and dropped exactly when it is below; with the four scores    *)
(* exactly at the threshold the update of the sides runs.                  *)
C12_ThresholdBoundary ==
    [][/\ \A k \in TRACKED :
              /\ ConfReached(inputs', k) <=> FoundAt(locals'.found, k) # None
              /\ ConfBelow(inputs', k) => FoundAt(locals'.found, k) = None
       /\ AllScoresAre(inputs', THRESHOLD) =>
              /\ locals'.updated
              /\ r_up' = RightPos(inputs')
              /\ l_up' = LeftPos(inputs')]_vars

\* every tracked score exactly at the threshold, and the frame has flipped
\* the right leg
C12_Witness ==
    /\ AllScoresAre(inputs, THRESHOLD)
    /\ locals.updated
    /\ locals.r_changes = Some(1)
    /\ r_up = "up"
    /\ l_up = "down"

----------------------------------------------------------------------------
(* What run leaves, as a function of the state before and of the inputs.   *)

\* lines 176-200: the limb states after the update
LimbsUpdated(found) ==
    LET r_pos == Position(found.right_knee[1], found.right_hip[1])
        r_changes == CountChange(r_num_direction_changes, r_pos, r_up)
        l_pos == Position(found.left_knee[1], found.left_hip[1])
        l_changes == CountChange(l_num_direction_changes, l_pos, l_up)
    IN  <<r_pos, l_pos, ChangesAfter(r_changes), WavesAfter(r_num_waves, r_changes),
          ChangesAfter(l_changes), WavesAfter(l_num_waves, l_changes)>>

\* lines 130 and 201 on limb states
TotalOf(ls) == Some(Total(ls[6], ls[4]))

OutcomeFound(found) ==
    IF found.raised THEN <<limbs, wave_str, "raised">>
    ELSE IF AllFound(found)
         THEN <<LimbsUpdated(found), TotalOf(LimbsUpdated(found)), "ready">>
    ELSE <<limbs, TotalOf(limbs), "ready">>

\* the limb states, the total drawn and pc after run(f)
Outcome(f) ==
    IF NoSubject(f.keypoints, f.keypoint_scores) THEN <<limbs, TotalOf(limbs), "ready">>
    ELSE OutcomeFound(Scan(At(f.keypoints, 0), At(f.keypoint_scores, 0),
                           ImgSize(f.img), 0, NoneFound))

\* what is left of a list of subjects when only the scores and the y
\* coordinates of the tracked keypoints of subject 0 are kept
StrippedKeypoints(keypoints) ==
    IF Len(keypoints) = 0 THEN <<>>
    ELSE <<[j \in 1..Len(keypoints[1]) |->
              IF j - 1 \in TRACKED THEN <<0, keypoints[1][j][2]>> ELSE <<0, 0>>]>>

StrippedScores(keypoint_scores) ==
    IF Len(keypoint_scores) = 0 THEN <<>>
    ELSE <<[j \in 1..Len(keypoint_scores[1]) |->
              IF j - 1 \in TRACKED THEN keypoint_scores[1][j] ELSE High]>>

Stripped(f) ==
    [img |-> DefaultImg,
     keypoints |-> StrippedKeypoints(f.keypoints),
     keypoint_scores |-> StrippedScores(f.keypoint_scores)]

(* C13: the limb states and the total after a frame are those that the     *)
(* same state gives on the frame stripped of everything but the scores     *)
(* and y coordinates of the four tracked keypoints of subject 0: the image *)
(* size, the x coordinates, the other keypoints and their scores and the   *)
(* subjects after the first change nothing.                                *)
C13_Noninterference ==
    [][<<limbs', wave_str', pc'>> = Outcome(Stripped(inputs'))]_vars

\* a frame with the hips' x moved, which the stripped frame does not have,
\* has flipped both legs and counted a repetition on the right
C13_Witness ==
    /\ inputs # Stripped(inputs)
    /\ HasSubject(inputs)
    /\ inputs.keypoints[1][KP_RIGHT_HIP + 1][1] > inputs.keypoints[1][KP_RIGHT_KNEE + 1][1]
    /\ locals.updated
    /\ locals.r_changes = Some(2)
    /\ locals.l_changes = Some(1)
    /\ r_num_waves = 1

----------------------------------------------------------------------------
\* call k is the first qualifying frame since construction
FirstQualifying(k) ==
    /\ k <= Len(hist)
    /\ Qualifying(hist[k].inputs)
    /\ \A j \in 1..(k - 1) : ~Qualifying(hist[j].inputs)

(* C14: before the first call both sides are down with change counter 0    *)
(* and count 0; the first qualifying frame leaves a side's change counter  *)
(* at 1 exactly when its position is up (at 0 otherwise, the count still   *)
(* 0); and no call leaves a count smaller than it found it.                *)
C14_InitialDown ==
    /\ Len(hist) = 0 => limbs = <<"down", "down", 0, 0, 0, 0>>
    /\ \A k \in 1..Len(hist) :
          /\ FirstQualifying(k) =>
                /\ hist[k].r_changes = 1 <=> RightPos(hist[k].inputs) = "up"
                /\ hist[k].l_changes = 1 <=> LeftPos(hist[k].inputs) = "up"
                /\ hist[k].r_changes \in {0, 1}
                /\ hist[k].l_changes \in {0, 1}
                /\ hist[k].r_waves = 0
                /\ hist[k].l_waves = 0
          /\ hist[k].r_waves >= Before(k).r_waves
          /\ hist[k].l_waves >= Before(k).l_waves

\* the first qualifying frame comes second, right knee up and left knee down,
\* and a repetition of the right leg follows
C14_Witness ==
    /\ Len(hist) = 3
    /\ FirstQualifying(2)
    /\ RightPos(hist[2].inputs) = "up"
    /\ LeftPos(hist[2].inputs) = "down"
    /\ hist[2].r_changes = 1
    /\ hist[2].l_changes = 0
    /\ hist[3].r_waves = 1

----------------------------------------------------------------------------
\* calls k and k + 1 are qualifying frames that each flip the right leg
RightFlipsTwice(k) ==
    /\ QualifyingFrom(k, 2)
    /\ RightPos(hist[k].inputs) # Before(k).r_up
    /\ RightPos(hist[k + 1].inputs) # RightPos(hist[k].inputs)

LeftFlipsTwice(k) ==
    /\ QualifyingFrom(k, 2)
    /\ LeftPos(hist[k].inputs) # Before(k).l_up
    /\ LeftPos(hist[k + 1].inputs) # LeftPos(hist[k].inputs)

(* C15: whatever frames came before, frames without subject or with low    *)
(* confidence included, two consecutive qualifying frames that each flip a *)
(* side's position raise that side's count by exactly 1.                   *)
C15_StillCounts ==
    \A k \in 1..Len(hist) :
        /\ RightFlipsTwice(k) => hist[k + 1].r_waves = Before(k).r_waves + 1
        /\ LeftFlipsTwice(k) => hist[k + 1].l_waves = Before(k).l_waves + 1

\* one flip, then a frame without subject and a frame with the left leg below
\* the threshold, then two flips of the right leg
C15_Witness ==
    /\ Len(hist) = 5
    /\ Qualifying(hist[1].inputs)
    /\ hist[1].r_changes = 1
    /\ ~HasSubject(hist[2].inputs)
    /\ LeftLow(hist[3].inputs)
    /\ RightFlipsTwice(4)
    /\ Before(4).r_waves = 0
    /\ r_num_waves = 1
    /\ r_num_direction_changes = 1

\* the position of a leg after the first k calls, read off the frames
RECURSIVE LastRightPos(_)
LastRightPos(k) ==
    IF k = 0 THEN "down"
    ELSE IF Qualifying(hist[k].inputs) THEN RightPos(hist[k].inputs)
    ELSE LastRightPos(k - 1)

RECURSIVE LastLeftPos(_)
LastLeftPos(k) ==
    IF k = 0 THEN "down"
    ELSE IF Qualifying(hist[k].inputs) THEN LeftPos(hist[k].inputs)
    ELSE LastLeftPos(k - 1)

\* the number of flips of a leg over the qualifying frames of the first k calls
RECURSIVE RightFlips(_)
RightFlips(k) ==
    IF k = 0 THEN 0
    ELSE RightFlips(k - 1) +
         (IF Qualifying(hist[k].inputs) /\ RightPos(hist[k].inputs) # LastRightPos(k - 1)
          THEN 1 ELSE 0)

RECURSIVE LeftFlips(_)
LeftFlips(k) ==
    IF k = 0 THEN 0
    ELSE LeftFlips(k - 1) +
         (IF Qualifying(hist[k].inputs) /\ LeftPos(hist[k].inputs) # LastLeftPos(k - 1)
          THEN 1 ELSE 0)

(* C16: after any sequence of frames, twice a side's count plus its change *)
(* counter is the number of flips of that side over its updated frames,    *)
(* counted from the initial position down; the count is half the flips,    *)
(* rounded down.                                                           *)
C16_FlipAccounting ==
    \A k \in 1..Len(hist) :
        /\ 2 * hist[k].r_waves + hist[k].r_changes = RightFlips(k)
        /\ hist[k].r_waves = RightFlips(k) \div 2
        /\ 2 * hist[k].l_waves + hist[k].l_changes = LeftFlips(k)
        /\ hist[k].l_waves = LeftFlips(k) \div 2

\* four flips of the right leg and one of the left over five calls, one of
\* them without update
C16_Witness ==
    /\ Len(hist) = 5
    /\ RightFlips(5) = 4
    /\ LeftFlips(5) = 1
    /\ \E k \in 1..5 : ~hist[k].updated
    /\ r_num_waves = 2
    /\ l_num_waves = 0
    /\ l_num_direction_changes = 1

(* C17: after every call of run each side's change counter is 0 or 1 and   *)
(* each side's position is "up" or "down".                                 *)
C17_BoundaryState ==
    /\ r_num_direction_changes \in {0, 1}
    /\ l_num_direction_changes \in {0, 1}
    /\ r_up \in {"up", "down"}
    /\ l_up \in {"up", "down"}

\* after a counted repetition the right leg is up again with one change
\* pending, and the last frame has updated the legs
C17_Witness ==
    /\ locals.updated
    /\ r_num_waves = 1
    /\ r_num_direction_changes = 1
    /\ r_up = "up"
    /\ l_num_direction_changes = 0
    /\ l_up = "down"

====
